---- MODULE Spec2Model ----
(***************************************************************************)
(* Model of the task lifecycle and of the scoring engine of the            *)
(* the-next-step backend:                                                  *)
(*   app/models.py                 the tasks, rejection_dampening and      *)
(*                                 daily_priorities tables                 *)
(*   app/services/state_machine.py the transition table, the transition    *)
(*                                 operation and recurrence synthesis      *)
(*   app/api/routes/tasks.py       the create / update / delete /          *)
(*                                 transition request handlers             *)
(*   app/services/scoring/         the scoring context, the additive       *)
(*                                 weighted strategy, stochastic selection *)
(*                                 and ranking                             *)
(*   app/services/scoring/registry.py the strategy registry                *)
(*   app/api/routes/suggestions.py the suggest-next, ranked-tasks, reject  *)
(*                                 and break request handlers              *)
(* Optional (nullable) values are sequences: None is <<>>, a present value *)
(* x is <<x>>.  Dates and timestamps are whole days.  Scores are exact     *)
(* rational numbers.                                                       *)
(***************************************************************************)
EXTENDS Integers, Sequences, FiniteSets, TLC

VARIABLES
    tasks,      \* committed rows of the tasks table, by primary key
    next_id,    \* next primary key of the tasks table
    now,        \* the clock read by datetime.now(); one tick per request
    session,    \* rows of the last request's session when its handler ended
    last,       \* the last request handled and the response to it
    rejection_dampening,  \* committed rows of the rejection_dampening table
    daily_priorities,     \* committed rows of the daily_priorities table
    scoring,    \* the scoring pass in progress, if any
    scored,     \* the last scoring call and what it returned
    registry,   \* the process-wide strategy registry (registry._registry)
    inflight    \* per worker, the transition request it is handling, if any

\* the state read and written by the scoring engine only, and the requests
\* in flight on the workers
scoring_vars == <<rejection_dampening, daily_priorities, scoring, scored,
                  registry, inflight>>

vars == <<tasks, next_id, now, session, last, scoring_vars>>

\* ---------------------------------------------------------------- bounds
MaxTime == 4       \* requests are handled at clock values 1..MaxTime
MaxTasks == 2      \* rows ever inserted into the tasks table
MaxList == 3       \* tasks in a list handed to the scoring service

\* ------------------------------------------------------------ data types
None == <<>>
Some(x) == <<x>>
Get(o) == o[1]

Users == {1, 2}

\* rows of the values table: value v belongs to user Values[v]
Values == [v \in {1, 2} |-> v]

READY == "Ready"
IN_PROGRESS == "In Progress"
BLOCKED == "Blocked"
PARKED == "Parked"
COMPLETED == "Completed"
CANCELLED == "Cancelled"

TaskStateEnum == {READY, IN_PROGRESS, BLOCKED, PARKED, COMPLETED, CANCELLED}

RecurrenceEnum == {"none", "daily", "weekly"}

\* ------------------------------------------------------- state machine
\* variant: Ready may go straight to Completed
ALLOWED_TRANSITIONS_ReadyCompletes ==
    [s \in TaskStateEnum |->
        CASE s = READY -> {IN_PROGRESS, BLOCKED, PARKED, CANCELLED, COMPLETED}
          [] s = IN_PROGRESS -> {COMPLETED, BLOCKED, PARKED, CANCELLED, READY}
          [] s = BLOCKED -> {READY, PARKED, CANCELLED}
          [] s = PARKED -> {READY, CANCELLED}
          [] s = COMPLETED -> {}
          [] s = CANCELLED -> {}]

\* variant: a Completed task may be reopened
ALLOWED_TRANSITIONS_CompletedReopens ==
    [s \in TaskStateEnum |->
        CASE s = READY -> {IN_PROGRESS, BLOCKED, PARKED, CANCELLED}
          [] s = IN_PROGRESS -> {COMPLETED, BLOCKED, PARKED, CANCELLED, READY}
          [] s = BLOCKED -> {READY, PARKED, CANCELLED}
          [] s = PARKED -> {READY, CANCELLED}
          [] s = COMPLETED -> {READY}
          [] s = CANCELLED -> {}]

ALLOWED_TRANSITIONS ==
    [s \in TaskStateEnum |->
        CASE s = READY -> {IN_PROGRESS, BLOCKED, PARKED, CANCELLED}
          [] s = IN_PROGRESS -> {COMPLETED, BLOCKED, PARKED, CANCELLED, READY}
          [] s = BLOCKED -> {READY, PARKED, CANCELLED}
          [] s = PARKED -> {READY, CANCELLED}
          [] s = COMPLETED -> {}
          [] s = CANCELLED -> {}]

is_transition_allowed(from_state, to_state) ==
    to_state \in ALLOWED_TRANSITIONS[from_state]

\* TRUE when validate_transition raises InvalidStateTransitionError
validate_transition(from_state, to_state) ==
    ~is_transition_allowed(from_state, to_state)

\* ------------------------------------------------------------ tasks table
\* Task(**task_dict): a new row with the column defaults of the model
Task(id, user_id, title, description, impact, urgency, due_date, recurrence) ==
    [id |-> id, user_id |-> user_id, title |-> title, description |-> description,
     impact |-> IF impact = None THEN "B" ELSE Get(impact),
     urgency |-> IF urgency = None THEN 3 ELSE Get(urgency),
     state |-> READY, due_date |-> due_date, recurrence |-> recurrence,
     completion_percentage |-> 0, notes |-> None, completed_at |-> None,
     parent_task_id |-> None, values |-> {}]

\* a session: the rows as the request sees them and the next primary key
Session == [rows |-> tasks, next_id |-> next_id]

\* db.add(row); db.flush(): the row gets its key, inside the transaction
add_flush(db, row) ==
    [rows |-> [i \in DOMAIN db.rows \cup {row.id} |->
                  IF i = row.id THEN row ELSE db.rows[i]],
     next_id |-> db.next_id + 1]

\* db.query(Task).filter(Task.id == task_id, Task.user_id == user).first()
fetch_task(db, task_id, user) ==
    IF task_id \in DOMAIN db.rows /\ db.rows[task_id].user_id = user
    THEN Some(db.rows[task_id]) ELSE None

\* ----------------------------------------------------- recurring instance
\* variant: a weekly task advances by one day
next_due_date_weekly_by_a_day(completed_task) ==
    IF completed_task.due_date # None
    THEN Some(Get(completed_task.due_date) + 1)
    ELSE None

next_due_date(completed_task) ==
    IF completed_task.due_date # None
    THEN IF completed_task.recurrence = "daily"
         THEN Some(Get(completed_task.due_date) + 1)
         ELSE IF completed_task.recurrence = "weekly"
              THEN Some(Get(completed_task.due_date) + 7)
              ELSE None
    ELSE None

\* variant: notes and completion percentage are carried over
new_task_keeps_progress(completed_task, id) ==
    [completed_task EXCEPT !.id = id, !.state = READY,
                           !.due_date = next_due_date(completed_task),
                           !.parent_task_id = Some(completed_task.id),
                           !.completed_at = None]

\* Task(...) of create_recurring_instance
new_task(completed_task, id) ==
    [id |-> id,
     user_id |-> completed_task.user_id,
     title |-> completed_task.title,
     description |-> completed_task.description,
     impact |-> completed_task.impact,
     urgency |-> completed_task.urgency,
     state |-> READY,
     due_date |-> next_due_date(completed_task),
     recurrence |-> completed_task.recurrence,
     parent_task_id |-> Some(completed_task.id),
     completion_percentage |-> 0,
     notes |-> None,
     completed_at |-> None,
     values |-> completed_task.values]

\* variant: the recurrence pattern is not looked at
create_recurring_instance_for_any_task(db, completed_task) ==
    LET inst == new_task(completed_task, db.next_id)
    IN  [db |-> add_flush(db, inst), new_instance |-> Some(inst)]

\* returns the session after db.add / db.flush and the new instance (or None)
create_recurring_instance(db, completed_task) ==
    IF completed_task.recurrence = "none"
    THEN [db |-> db, new_instance |-> None]
    ELSE LET inst == new_task(completed_task, db.next_id)
         IN  [db |-> add_flush(db, inst), new_instance |-> Some(inst)]

\* ------------------------------------------------------ transition service
\* variant: both fields are assigned whether supplied or not
update_optional_fields_unconditionally(task, notes, completion_percentage) ==
    [task EXCEPT
        !.notes = notes,
        !.completion_percentage =
            IF completion_percentage # None THEN Get(completion_percentage) ELSE 0]

\* notes / completion_percentage are applied only when supplied
update_optional_fields(task, notes, completion_percentage) ==
    [task EXCEPT
        !.notes = IF notes # None THEN notes ELSE @,
        !.completion_percentage =
            IF completion_percentage # None THEN Get(completion_percentage) ELSE @]

\* variant: every valid transition stamps completed_at
set_completed_at_on_any_transition(task, old_state, new_state, clock) ==
    [task EXCEPT !.completed_at = Some(clock)]

\* completed_at is stamped on entering Completed, cleared on leaving it
set_completed_at(task, old_state, new_state, clock) ==
    IF new_state = COMPLETED /\ old_state # COMPLETED
    THEN [task EXCEPT !.completed_at = Some(clock)]
    ELSE IF old_state = COMPLETED /\ new_state # COMPLETED
         THEN [task EXCEPT !.completed_at = None]
         ELSE task

\* the task as mutated by a valid transition (state, optional fields, stamp)
mutate_task(task, new_state, notes, completion_percentage, clock) ==
    set_completed_at(
        update_optional_fields([task EXCEPT !.state = new_state],
                               notes, completion_percentage),
        task.state, new_state, clock)

\* variant: the optional fields are assigned before the validation raises
rejected_after_fields(db, task, notes, completion_percentage) ==
    [raised |-> TRUE,
     db |-> [db EXCEPT !.rows[task.id] =
                update_optional_fields(task, notes, completion_percentage)],
     new_instance |-> None]

\* validate_transition raised: nothing was assigned yet
rejected(db, task, notes, completion_percentage) ==
    [raised |-> TRUE, db |-> db, new_instance |-> None]

\* result: raised (InvalidStateTransitionError), the session afterwards, and
\* the returned new instance
transition_task_state(db, task, new_state, notes, completion_percentage, clock) ==
    IF validate_transition(task.state, new_state)
    THEN rejected(db, task, notes, completion_percentage)
    ELSE LET t == mutate_task(task, new_state, notes, completion_percentage, clock)
             db1 == [db EXCEPT !.rows[task.id] = t]
         IN  IF new_state = COMPLETED
             THEN LET r == create_recurring_instance(db1, t)
                  IN  [raised |-> FALSE, db |-> r.db, new_instance |-> r.new_instance]
             ELSE [raised |-> FALSE, db |-> db1, new_instance |-> None]

\* ------------------------------------------------------- request bodies
\* TaskCreate bodies
TaskCreateInputs ==
    { [title |-> "a", description |-> None, value_ids |-> {}, impact |-> None,
       urgency |-> None, due_date |-> None, recurrence |-> "none"],
      [title |-> "b", description |-> Some("d"), value_ids |-> {1},
       impact |-> Some("A"), urgency |-> Some(1), due_date |-> Some(10),
       recurrence |-> "daily"],
      [title |-> "a", description |-> None, value_ids |-> {}, impact |-> None,
       urgency |-> None, due_date |-> Some(10), recurrence |-> "weekly"],
      [title |-> "b", description |-> Some("d"), value_ids |-> {2},
       impact |-> Some("A"), urgency |-> Some(1), due_date |-> None,
       recurrence |-> "daily"] }

\* TaskTransition bodies
TaskTransitionInputs ==
    [new_state : TaskStateEnum,
     notes : {None, Some("n")},
     completion_percentage : {None, Some(50)}]

\* the bodies that supply both optional fields or neither
TaskTransitionInputsBoth ==
    {x \in TaskTransitionInputs : (x.notes = None) <=> (x.completion_percentage = None)}

\* TaskUpdate bodies: every field is optional
NoUpdate ==
    [title |-> None, description |-> None, value_ids |-> None, impact |-> None,
     urgency |-> None, state |-> None, due_date |-> None,
     completion_percentage |-> None, notes |-> None]

TaskUpdateInputs ==
    { [NoUpdate EXCEPT !.state = Some(s)] : s \in TaskStateEnum }
    \cup { [NoUpdate EXCEPT !.notes = Some("n"), !.completion_percentage = Some(50)],
           [NoUpdate EXCEPT !.title = Some("b"), !.value_ids = Some({1})] }

NoBody == [none |-> TRUE]

\* no scoring call was made yet
NoScored == [op |-> "none"]

Response(op, status, task_id, body, next_instance) ==
    [op |-> op, status |-> status, task_id |-> task_id,
     body |-> body, next_instance |-> next_instance]

\* the values among value_ids that exist and belong to the user
owned_values(value_ids, user) ==
    {v \in value_ids \cap DOMAIN Values : Values[v] = user}

\* db.commit(): the session's rows become the committed rows
commit(db) ==
    /\ tasks' = db.rows
    /\ next_id' = db.next_id

\* variant: the commit writes the rows that existed and drops the added one
commit_without_added_rows(db) ==
    /\ tasks' = [i \in DOMAIN tasks |-> db.rows[i]]
    /\ next_id' = next_id

\* the one db.commit() of transition_task, after transition_task_state returned
commit_transition(db) == commit(db)

\* the worker processes that serve requests
Workers == {1, 2}

\* no worker is in the middle of a request
Idle == [w \in Workers |-> None]

\* a request is handled at the current time, and time passes
Handled ==
    /\ now <= MaxTime
    /\ now' = now + 1

\* ------------------------------- the strategy registry (registry.py)
\* a strategy object: its name and description properties, and which
\* instance it is
Strategy(name, description, instance) ==
    [name |-> name, description |-> description, instance |-> instance]

AdditiveWeightedStrategy ==
    Strategy("additive_weighted",
             "Additive weighted scoring with strategic nudge (MVP default)", 1)

\* the strategies handed to register: the default one, another instance
\* that goes by the same name, and one with a name of its own
Strategies ==
    {AdditiveWeightedStrategy,
     Strategy("additive_weighted", "Additive weighted scoring, retuned", 2),
     Strategy("multiplicative", "Multiplicative scoring", 3)}

\* the names asked for
StrategyNames == {"additive_weighted", "multiplicative", "nonexistent_strategy"}

\* ScoringStrategyRegistry(): the dict is the sequence of its values in
\* insertion order, one per key
ScoringStrategyRegistry ==
    [_strategies |-> <<>>, _default_strategy_name |-> "additive_weighted"]

\* name in self._strategies
registered_names(self) == {self._strategies[i].name : i \in DOMAIN self._strategies}

\* variant: a name that is taken keeps the strategy it has
register_if_absent(self, strategy) ==
    IF strategy.name \in registered_names(self) THEN self
    ELSE [self EXCEPT !._strategies = Append(@, strategy)]

\* self._strategies[strategy.name] = strategy: a key that exists keeps its
\* place and takes the new value, a new key goes last
register(self, strategy) ==
    IF strategy.name \in registered_names(self)
    THEN [self EXCEPT !._strategies =
             [i \in DOMAIN @ |-> IF @[i].name = strategy.name THEN strategy
                                 ELSE @[i]]]
    ELSE [self EXCEPT !._strategies = Append(@, strategy)]

\* self._strategies[name]
lookup(self, name) ==
    LET i == CHOOSE i \in DOMAIN self._strategies : self._strategies[i].name = name
    IN  self._strategies[i]

get(self, name) ==
    IF name \notin registered_names(self)
    THEN [raised |-> Some("Unknown scoring strategy: " \o name), value |-> None]
    ELSE [raised |-> None, value |-> Some(lookup(self, name))]

get_default(self) ==
    IF self._default_strategy_name \notin registered_names(self)
    THEN [raised |-> Some("KeyError"), value |-> None]
    ELSE [raised |-> None,
          value |-> Some(lookup(self, self._default_strategy_name))]

list_strategies(self) ==
    [i \in DOMAIN self._strategies |->
        [name |-> self._strategies[i].name,
         description |-> self._strategies[i].description]]

\* the global instance once the module is imported: created empty, then the
\* default strategy is registered
_registry == register(ScoringStrategyRegistry, AdditiveWeightedStrategy)

\* ----------------------------------------------------------------- Init
Init ==
    /\ tasks = <<>>
    /\ next_id = 1
    /\ now = 1
    /\ session = <<>>
    /\ last = Response("none", 0, 0, NoBody, None)
    /\ rejection_dampening = {}
    /\ daily_priorities = {}
    /\ scoring = None
    /\ scored = NoScored
    /\ registry = _registry
    /\ inflight = Idle

\* ------------------------------------------------- POST /tasks/ (create)
create_task(user, task_data) ==
    LET db == Session
        row == Task(db.next_id, user, task_data.title, task_data.description,
                    task_data.impact, task_data.urgency, task_data.due_date,
                    task_data.recurrence)
        values == owned_values(task_data.value_ids, user)
    IN  IF task_data.value_ids # {} /\ Cardinality(values) # Cardinality(task_data.value_ids)
        THEN /\ session' = db.rows
             /\ last' = Response("create", 400, 0, NoBody, None)
             /\ UNCHANGED <<tasks, next_id>>
        ELSE LET db1 == add_flush(db, [row EXCEPT !.values = values])
             IN  /\ commit(db1)
                 /\ session' = db1.rows
                 /\ last' = Response("create", 201, row.id, NoBody, None)

CreateTask ==
    /\ Handled
    /\ next_id <= MaxTasks
    /\ \E user \in Users, task_data \in TaskCreateInputs : create_task(user, task_data)
    /\ UNCHANGED scoring_vars

\* --------------------------------------------- PUT /tasks/{id} (update)
\* the assignments of update_task before its value_ids block
update_fields(task, task_data) ==
    [task EXCEPT
        !.title = IF task_data.title # None THEN Get(task_data.title) ELSE @,
        !.description =
            IF task_data.description # None THEN task_data.description ELSE @,
        !.impact = IF task_data.impact # None THEN Get(task_data.impact) ELSE @,
        !.urgency = IF task_data.urgency # None THEN Get(task_data.urgency) ELSE @,
        !.state = IF task_data.state # None THEN Get(task_data.state) ELSE @,
        !.due_date = IF task_data.due_date # None THEN task_data.due_date ELSE @,
        !.completion_percentage =
            IF task_data.completion_percentage # None
            THEN Get(task_data.completion_percentage) ELSE @,
        !.notes = IF task_data.notes # None THEN task_data.notes ELSE @]

update_task(user, task_id, task_data) ==
    LET db == Session
        found == fetch_task(db, task_id, user)
    IN  IF found = None
        THEN /\ session' = db.rows
             /\ last' = Response("update", 404, task_id, NoBody, None)
             /\ UNCHANGED <<tasks, next_id>>
        ELSE LET t1 == update_fields(Get(found), task_data)
                 ids == IF task_data.value_ids # None
                        THEN Get(task_data.value_ids) ELSE {}
                 values == owned_values(ids, user)
                 invalid == Cardinality(values) # Cardinality(ids)
                 t2 == IF task_data.value_ids # None /\ ~invalid
                       THEN [t1 EXCEPT !.values = values] ELSE t1
                 db1 == [db EXCEPT !.rows[task_id] = t2]
             IN  IF invalid
                 THEN /\ session' = db1.rows
                      /\ last' = Response("update", 400, task_id, NoBody, None)
                      /\ UNCHANGED <<tasks, next_id>>
                 ELSE /\ commit(db1)
                      /\ session' = db1.rows
                      /\ last' = Response("update", 200, task_id, NoBody, None)

UpdateTask ==
    /\ Handled
    /\ \E user \in Users, task_id \in 1..next_id, task_data \in TaskUpdateInputs :
          update_task(user, task_id, task_data)
    /\ UNCHANGED scoring_vars

\* ------------------------------------------ DELETE /tasks/{id} (delete)
\* db.delete(task): the row goes, and the rows of its recurrence_instances
\* collection lose their parent_task_id
delete_row(db, task_id) ==
    [db EXCEPT !.rows =
        [i \in DOMAIN db.rows \ {task_id} |->
            IF db.rows[i].parent_task_id = Some(task_id)
            THEN [db.rows[i] EXCEPT !.parent_task_id = None]
            ELSE db.rows[i]]]

delete_task(user, task_id) ==
    LET db == Session
        found == fetch_task(db, task_id, user)
    IN  IF found = None
        THEN /\ session' = db.rows
             /\ last' = Response("delete", 404, task_id, NoBody, None)
             /\ UNCHANGED <<tasks, next_id>>
        ELSE LET db1 == delete_row(db, task_id)
             IN  /\ commit(db1)
                 /\ session' = db1.rows
                 /\ last' = Response("delete", 204, task_id, NoBody, None)

DeleteTask ==
    /\ Handled
    /\ \E user \in Users, task_id \in 1..next_id : delete_task(user, task_id)
    /\ UNCHANGED scoring_vars

\* ------------------------------ POST /tasks/{id}/transition (transition)
transition_task(user, task_id, transition_data) ==
    LET db == Session
        found == fetch_task(db, task_id, user)
    IN  IF found = None
        THEN /\ session' = db.rows
             /\ last' = Response("transition", 404, task_id, NoBody, None)
             /\ UNCHANGED <<tasks, next_id>>
        ELSE LET r == transition_task_state(db, Get(found), transition_data.new_state,
                                            transition_data.notes,
                                            transition_data.completion_percentage, now)
             IN  IF r.raised
                 THEN /\ session' = r.db.rows
                      /\ last' = Response("transition", 400, task_id,
                                          transition_data, None)
                      /\ UNCHANGED <<tasks, next_id>>
                 ELSE /\ r.db.next_id <= MaxTasks + 1
                      /\ commit_transition(r.db)
                      /\ session' = r.db.rows
                      /\ last' = Response("transition", 200, task_id,
                                          transition_data,
                                          IF r.new_instance = None THEN None
                                          ELSE Some(Get(r.new_instance).id))

TransitionTask(inputs) ==
    /\ Handled
    /\ \E user \in Users, task_id \in 1..next_id, transition_data \in inputs :
          transition_task(user, task_id, transition_data)
    /\ UNCHANGED scoring_vars

\* a transition request with any body
TransitionTaskAny == TransitionTask(TaskTransitionInputs)

\* a transition request that supplies both optional fields or neither
TransitionTaskBoth == TransitionTask(TaskTransitionInputsBoth)

\* ------------------------------------------------------- specifications
\* the task API: every request of routes/tasks.py that writes
Next == CreateTask \/ UpdateTask \/ DeleteTask \/ TransitionTaskBoth

Spec == Init /\ [][Next]_vars

\* the lifecycle alone: tasks are created and then only moved by transition
\* requests
NextSM == CreateTask \/ TransitionTaskAny

SpecSM == Init /\ [][NextSM]_vars

\* ===================================================================
\* Properties
\* ===================================================================

\* the step is the handling of a transition request that found its task
TransitionStep == last'.op = "transition" /\ last'.status # 404

\* the task of the request being handled, before and after the step
Before == tasks[last'.task_id]
After == tasks'[last'.task_id]

\* the edges of the lifecycle table, written out
TableEdges ==
    { <<READY, IN_PROGRESS>>, <<READY, BLOCKED>>, <<READY, PARKED>>,
      <<READY, CANCELLED>>,
      <<IN_PROGRESS, COMPLETED>>, <<IN_PROGRESS, BLOCKED>>, <<IN_PROGRESS, PARKED>>,
      <<IN_PROGRESS, CANCELLED>>, <<IN_PROGRESS, READY>>,
      <<BLOCKED, READY>>, <<BLOCKED, PARKED>>, <<BLOCKED, CANCELLED>>,
      <<PARKED, READY>>, <<PARKED, CANCELLED>> }

\* C1: is_transition_allowed is true exactly on the edges of the table, and a
\* transition request succeeds exactly on those edges and is rejected as an
\* invalid transition on every other pair, self-transitions included.
C1_TransitionTable ==
    [][ TransitionStep =>
          LET from == Before.state
              to == last'.body.new_state
          IN  /\ \A f, t \in TaskStateEnum :
                    is_transition_allowed(f, t) <=> <<f, t>> \in TableEdges
              /\ last'.status = 200 <=> <<from, to>> \in TableEdges
              /\ last'.status = 400 <=> <<from, to>> \notin TableEdges
              /\ last'.status = 200 => After.state = to ]_vars

\* a self-transition was requested and rejected
C1_Witness ==
    /\ last.op = "transition"
    /\ last.status = 400
    /\ last.task_id \in DOMAIN tasks
    /\ last.body.new_state = tasks[last.task_id].state
    /\ tasks[last.task_id].state = IN_PROGRESS

\* C2: a transition request whose target is no allowed edge fails as an
\* invalid transition and leaves the task as it was, in the session and in the
\* store, whatever notes or completion percentage came with it; no instance
\* is created.
C2_InvalidLeavesTaskUnmodified ==
    [][ (TransitionStep /\ ~is_transition_allowed(Before.state, last'.body.new_state)) =>
          /\ last'.status = 400
          /\ last'.next_instance = None
          /\ session' = tasks
          /\ tasks' = tasks
          /\ next_id' = next_id ]_vars

\* an invalid transition that supplied notes and a completion percentage, on
\* a task that holds neither
C2_Witness ==
    /\ last.op = "transition"
    /\ last.status = 400
    /\ last.body.notes # None
    /\ last.body.completion_percentage # None
    /\ tasks[last.task_id].notes = None
    /\ tasks[last.task_id].completion_percentage = 0

\* C3: Completed and Cancelled are absorbing: a transition request on such a
\* task is rejected, and the state of the task never changes again.
C3_TerminalStatesAbsorbing ==
    [][ /\ (TransitionStep /\ Before.state \in {COMPLETED, CANCELLED})
            => last'.status = 400
        /\ \A id \in DOMAIN tasks \cap DOMAIN tasks' :
              tasks[id].state \in {COMPLETED, CANCELLED}
                  => tasks'[id].state = tasks[id].state ]_vars

\* C4: completed_at is set exactly on the tasks in state Completed
C4_CompletedAtIffCompleted ==
    \A id \in DOMAIN tasks :
        tasks[id].completed_at # None <=> tasks[id].state = COMPLETED

\* C5: over transition requests alone, completed_at changes exactly in the
\* step that moves the task into Completed, it is then the time of that step,
\* and once set it never changes.
C5_CompletedAtStampedOnce ==
    [][ \A id \in DOMAIN tasks \cap DOMAIN tasks' :
          /\ tasks'[id].completed_at # tasks[id].completed_at
                <=> /\ TransitionStep
                    /\ last'.status = 200
                    /\ last'.task_id = id
                    /\ tasks[id].state # COMPLETED
                    /\ tasks'[id].state = COMPLETED
          /\ tasks'[id].completed_at # tasks[id].completed_at
                => tasks'[id].completed_at = Some(now)
          /\ tasks[id].completed_at # None
                => tasks'[id].completed_at = tasks[id].completed_at ]_vars

\* a task stamped at an earlier time has since received another transition
\* request
C5_Witness ==
    /\ last.op = "transition"
    /\ last.status = 400
    /\ tasks[last.task_id].state = COMPLETED
    /\ tasks[last.task_id].completed_at # None
    /\ Get(tasks[last.task_id].completed_at) < now - 1

\* C6: a transition returns, and adds to the store, a new task exactly when it
\* is valid, its target is Completed and the task recurs; otherwise it returns
\* nothing and the store gains no row.
C6_InstanceIffRecurringCompleted ==
    [][ TransitionStep =>
          /\ last'.next_instance # None
                <=> /\ is_transition_allowed(Before.state, last'.body.new_state)
                    /\ last'.body.new_state = COMPLETED
                    /\ Before.recurrence # "none"
          /\ last'.next_instance # None
                => /\ Get(last'.next_instance) \notin DOMAIN tasks
                   /\ DOMAIN tasks' = DOMAIN tasks \cup {Get(last'.next_instance)}
          /\ last'.next_instance = None => DOMAIN tasks' = DOMAIN tasks ]_vars

\* a daily task was completed: the instance is returned and is in the store
C6_Witness ==
    /\ last.op = "transition"
    /\ last.status = 200
    /\ last.body.new_state = COMPLETED
    /\ tasks[last.task_id].recurrence = "daily"
    /\ last.next_instance # None
    /\ Get(last.next_instance) \in DOMAIN tasks

\* the step spawned an instance
SpawnStep == TransitionStep /\ last'.next_instance # None

\* the instance spawned by the step
Spawned == tasks'[Get(last'.next_instance)]

\* C7: the spawned instance is another task than the completed one, with its
\* owner, title, description, impact, urgency, recurrence and value links, in
\* state Ready, with the completed task as parent, completion percentage 0, no
\* notes and no completion timestamp; the completed task keeps every field the
\* transition itself does not set.
C7_InstanceCopiesParent ==
    [][ SpawnStep =>
          /\ Spawned.id # Before.id
          /\ Spawned.id = Get(last'.next_instance)
          /\ Spawned.user_id = Before.user_id
          /\ Spawned.title = Before.title
          /\ Spawned.description = Before.description
          /\ Spawned.impact = Before.impact
          /\ Spawned.urgency = Before.urgency
          /\ Spawned.recurrence = Before.recurrence
          /\ Spawned.values = Before.values
          /\ Spawned.state = READY
          /\ Spawned.parent_task_id = Some(Before.id)
          /\ Spawned.completion_percentage = 0
          /\ Spawned.notes = None
          /\ Spawned.completed_at = None
          /\ After = [Before EXCEPT !.state = COMPLETED,
                                    !.completed_at = After.completed_at,
                                    !.notes = After.notes,
                                    !.completion_percentage =
                                        After.completion_percentage] ]_vars

\* the completed task of user 2 has notes, a completion percentage and a value
\* link, and its instance is in the store
C7_Witness ==
    /\ last.op = "transition"
    /\ last.next_instance # None
    /\ tasks[last.task_id].user_id = 2
    /\ tasks[last.task_id].notes # None
    /\ tasks[last.task_id].completion_percentage = 50
    /\ tasks[last.task_id].values # {}
    /\ tasks[Get(last.next_instance)].values = tasks[last.task_id].values

\* C8: the due date of the spawned instance is the completed task's due date
\* plus 1 day for a daily task and plus 7 days for a weekly one, and is absent
\* when the completed task has none.
C8_InstanceDueDate ==
    [][ SpawnStep =>
          /\ Before.due_date = None => Spawned.due_date = None
          /\ (Before.due_date # None /\ Before.recurrence = "daily")
                => Spawned.due_date = Some(Get(Before.due_date) + 1)
          /\ (Before.due_date # None /\ Before.recurrence = "weekly")
                => Spawned.due_date = Some(Get(Before.due_date) + 7) ]_vars

\* a weekly task due on day 10 was completed; its instance is due on day 17
C8_Witness ==
    /\ last.op = "transition"
    /\ last.next_instance # None
    /\ tasks[last.task_id].recurrence = "weekly"
    /\ tasks[last.task_id].due_date = Some(10)
    /\ tasks[Get(last.next_instance)].due_date = Some(17)

\* C9: every task with a parent_task_id refers to a task of the store that is
\* Completed and has the same owner and recurrence pattern.
C9_ParentIsCompletedTask ==
    \A id \in DOMAIN tasks :
        tasks[id].parent_task_id # None =>
            LET parent == Get(tasks[id].parent_task_id)
            IN  /\ parent \in DOMAIN tasks
                /\ tasks[parent].state = COMPLETED
                /\ tasks[parent].user_id = tasks[id].user_id
                /\ tasks[parent].recurrence = tasks[id].recurrence

\* C10: what a transition request commits is one unit: the store shows the
\* move of a recurring task into Completed together with its new instance or
\* shows neither, the committed rows are the rows of the session, and a
\* rejected request commits nothing.
C10_TransitionCommitsAsUnit ==
    [][ /\ (last'.op = "transition" /\ last'.status # 200)
            => (tasks' = tasks /\ next_id' = next_id)
        /\ (last'.op = "transition" /\ last'.status = 200)
            => /\ tasks' = session'
               /\ (Before.recurrence # "none" /\ After.state = COMPLETED)
                     <=> \E c \in DOMAIN tasks' \ DOMAIN tasks :
                            tasks'[c].parent_task_id = Some(last'.task_id)
        /\ \A c \in DOMAIN tasks' \ DOMAIN tasks :
              tasks'[c].parent_task_id # None
                  => LET parent == Get(tasks'[c].parent_task_id)
                     IN  /\ parent \in DOMAIN tasks
                         /\ tasks[parent].state # COMPLETED
                         /\ tasks'[parent].state = COMPLETED ]_vars

\* the store holds a Completed weekly task together with its Ready instance,
\* both committed by the last request
C10_Witness ==
    /\ last.op = "transition"
    /\ last.status = 200
    /\ last.next_instance # None
    /\ tasks = session
    /\ tasks[last.task_id].state = COMPLETED
    /\ tasks[last.task_id].completed_at = Some(now - 1)
    /\ tasks[Get(last.next_instance)].state = READY
    /\ tasks[Get(last.next_instance)].parent_task_id = Some(last.task_id)

\* ===================================================================
\* The scoring engine
\* ===================================================================

\* -------------------------------------------------------------- numbers
\* a score is the exact rational n/d in lowest terms, with d > 0
RECURSIVE gcd(_, _)
gcd(a, b) == IF b = 0 THEN a ELSE gcd(b, a % b)

abs(x) == IF x < 0 THEN -x ELSE x

Rat(n, d) ==
    LET sign == IF d < 0 THEN -1 ELSE 1
        g == gcd(abs(n), abs(d))
    IN  [n |-> (sign * n) \div g, d |-> (sign * d) \div g]

\* float(i) of an integer
float(i) == Rat(i, 1)

\* a + b, a * b, a / b, a < b and sum() on scores
add(a, b) == Rat(a.n * b.d + b.n * a.d, a.d * b.d)
mul(a, b) == Rat(a.n * b.n, a.d * b.d)
truediv(a, b) == Rat(a.n * b.d, a.d * b.n)
lt(a, b) == a.n * b.d < b.n * a.d

RECURSIVE sum(_)
sum(scores) ==
    IF scores = <<>> THEN float(0) ELSE add(Head(scores), sum(Tail(scores)))

\* ------------------------------------------------------- configuration
ImpactEnum == {"A", "B", "C", "D"}
UrgencyEnum == {1, 2, 3, 4}

SCORING_IMPACT_VALUES == ("A" :> 4) @@ ("B" :> 3) @@ ("C" :> 2) @@ ("D" :> 1)
SCORING_URGENCY_VALUES == (1 :> 4) @@ (2 :> 3) @@ (3 :> 2) @@ (4 :> 1)

\* settings.SCORING_CONFIG with the default settings
SCORING_CONFIG ==
    [impact_weight |-> Rat(2, 1),
     urgency_weight |-> Rat(3, 2),
     strategic_nudge_boost |-> Rat(3, 2),
     dampening_factor |-> Rat(1, 2),
     priority_multiplier |-> Rat(2, 1),
     impact_values |-> SCORING_IMPACT_VALUES,
     urgency_values |-> SCORING_URGENCY_VALUES]

\* a configuration whose weights are zero: every score is zero
ZeroWeightsConfig ==
    [SCORING_CONFIG EXCEPT !.impact_weight = float(0), !.urgency_weight = float(0)]

\* a configuration that scores by impact alone and gives impact D no value
ImpactOnlyConfig ==
    [SCORING_CONFIG EXCEPT !.urgency_weight = float(0),
                           !.impact_values = ("D" :> 0) @@ SCORING_IMPACT_VALUES]

\* the config dictionaries handed to TaskScoringService
ScoringConfigs == {SCORING_CONFIG, ZeroWeightsConfig, ImpactOnlyConfig}

\* --------------------------------------------- the auxiliary record tables
\* a row of rejection_dampening
RejectionDampening(id, user_id, task_id, expires_at) ==
    [id |-> id, user_id |-> user_id, task_id |-> task_id, expires_at |-> expires_at]

\* a row of daily_priorities
DailyPriority(id, user_id, task_id, expires_at) ==
    [id |-> id, user_id |-> user_id, task_id |-> task_id, expires_at |-> expires_at]

\* what a query of a session sees of the two tables: the committed rows
Store == [rejection_dampening |-> rejection_dampening,
          daily_priorities |-> daily_priorities]

\* ------------------------------------------------------ scoring context
ScoringContext(user_id, config) ==
    [user_id |-> user_id, config |-> config,
     dampening_cache |-> <<>>, priority_cache |-> <<>>]

\* -------------------------------------------- AdditiveWeightedStrategy
\* variant: the dampening query is not filtered by user
_has_active_dampening_of_any_user(task, context, db) ==
    IF task.id \in DOMAIN context.dampening_cache
    THEN [value |-> context.dampening_cache[task.id], context |-> context]
    ELSE LET has_dampening == \E r \in db.rejection_dampening : r.task_id = task.id
         IN  [value |-> has_dampening,
              context |-> [context EXCEPT
                  !.dampening_cache = (task.id :> has_dampening) @@ @]]

\* variant: the table is queried on every call
_has_active_dampening_uncached(task, context, db) ==
    LET has_dampening ==
            \E r \in db.rejection_dampening :
                r.user_id = context.user_id /\ r.task_id = task.id
    IN  [value |-> has_dampening,
         context |-> [context EXCEPT
             !.dampening_cache = (task.id :> has_dampening) @@ @]]

\* variant: a record counts only when its tag says "next_review"
_has_active_dampening_by_tag(task, context, db) ==
    IF task.id \in DOMAIN context.dampening_cache
    THEN [value |-> context.dampening_cache[task.id], context |-> context]
    ELSE LET has_dampening ==
                 \E r \in db.rejection_dampening :
                     /\ r.user_id = context.user_id /\ r.task_id = task.id
                     /\ r.expires_at = "next_review"
         IN  [value |-> has_dampening,
              context |-> [context EXCEPT
                  !.dampening_cache = (task.id :> has_dampening) @@ @]]

\* returns the answer and the context with its cache filled
_has_active_dampening(task, context, db) ==
    IF task.id \in DOMAIN context.dampening_cache
    THEN [value |-> context.dampening_cache[task.id], context |-> context]
    ELSE LET has_dampening ==
                 \E r \in db.rejection_dampening :
                     r.user_id = context.user_id /\ r.task_id = task.id
         IN  [value |-> has_dampening,
              context |-> [context EXCEPT
                  !.dampening_cache = (task.id :> has_dampening) @@ @]]

\* variant: a record still counts at the instant it expires
_is_daily_priority_until_expiry(task, context, db, clock) ==
    IF task.id \in DOMAIN context.priority_cache
    THEN [value |-> context.priority_cache[task.id], context |-> context]
    ELSE LET is_priority ==
                 \E r \in db.daily_priorities :
                     /\ r.user_id = context.user_id
                     /\ r.task_id = task.id
                     /\ r.expires_at >= clock
         IN  [value |-> is_priority,
              context |-> [context EXCEPT
                  !.priority_cache = (task.id :> is_priority) @@ @]]

\* returns the answer and the context with its cache filled
_is_daily_priority(task, context, db, clock) ==
    IF task.id \in DOMAIN context.priority_cache
    THEN [value |-> context.priority_cache[task.id], context |-> context]
    ELSE LET is_priority ==
                 \E r \in db.daily_priorities :
                     /\ r.user_id = context.user_id
                     /\ r.task_id = task.id
                     /\ r.expires_at > clock
         IN  [value |-> is_priority,
              context |-> [context EXCEPT
                  !.priority_cache = (task.id :> is_priority) @@ @]]

\* str() of an urgency rank
urgency_str == (1 :> "1") @@ (2 :> "2") @@ (3 :> "3") @@ (4 :> "4")

\* sep.join(parts)
RECURSIVE join(_, _)
join(sep, parts) ==
    IF Len(parts) = 1 THEN Head(parts)
    ELSE Head(parts) \o sep \o join(sep, Tail(parts))

\* variant: the urgency term is subtracted
base_score_difference(task, config) ==
    add(mul(config.impact_weight, float(config.impact_values[task.impact])),
        mul(float(-1), mul(config.urgency_weight,
                           float(config.urgency_values[task.urgency]))))

\* step 1: the base score
base_score(task, config) ==
    add(mul(config.impact_weight, float(config.impact_values[task.impact])),
        mul(config.urgency_weight, float(config.urgency_values[task.urgency])))

\* variant: every top-impact task but the most urgent is nudged
strategic_nudge_from_rank_2(task) ==
    task.impact = "A" /\ task.urgency >= 2

\* step 2: the condition of the strategic nudge
strategic_nudge(task) ==
    task.impact = "A" /\ task.urgency >= 3

apply_strategic_nudge(running, config) ==
    [score |-> mul(running.score, config.strategic_nudge_boost),
     reason_parts |-> Append(running.reason_parts, "strategic nudge")]

\* variant: the score is dampened and the reason does not say so
apply_dampening_silently(running, config) ==
    [score |-> truediv(running.score, add(float(1), config.dampening_factor)),
     reason_parts |-> running.reason_parts]

\* step 3: rejection dampening
apply_dampening(running, config) ==
    [score |-> truediv(running.score, add(float(1), config.dampening_factor)),
     reason_parts |-> Append(running.reason_parts, "dampened (rejected)")]

\* step 4: daily priority boost
apply_priority(running, config) ==
    [score |-> mul(running.score, config.priority_multiplier),
     reason_parts |-> Append(running.reason_parts, "daily priority")]

\* returns the score, the reason and the context with its caches filled
calculate_score(task, context, db, clock) ==
    LET config == context.config
        r1 == [score |-> base_score(task, config),
               reason_parts |-> << "Impact:" \o task.impact \o " Urgency:"
                                   \o urgency_str[task.urgency] >>]
        r2 == IF strategic_nudge(task) THEN apply_strategic_nudge(r1, config) ELSE r1
        dampening == _has_active_dampening(task, context, db)
        r3 == IF dampening.value THEN apply_dampening(r2, config) ELSE r2
        priority == _is_daily_priority(task, dampening.context, db, clock)
        r4 == IF priority.value THEN apply_priority(r3, config) ELSE r3
    IN  [score |-> r4.score,
         reason |-> join(" + ", r4.reason_parts),
         context |-> priority.context]

\* --------------------------------------------------- ScoringStrategy
\* scores the tasks in list order, threading the one context through
RECURSIVE calculate_all_scores(_, _, _, _)
calculate_all_scores(task_list, context, db, clock) ==
    IF task_list = <<>>
    THEN [scored_tasks |-> <<>>, context |-> context]
    ELSE LET r == calculate_score(Head(task_list), context, db, clock)
             rest == calculate_all_scores(Tail(task_list), r.context, db, clock)
         IN  [scored_tasks |->
                  << [task |-> Head(task_list), score |-> r.score,
                      reason |-> r.reason] >> \o rest.scored_tasks,
              context |-> rest.context]

\* ------------------------------------------------- TaskScoringService
\* what a call of the service did and returned
Outcome(raised, context, scored_tasks, probabilities, drawn, possible) ==
    [raised |-> raised, context |-> context, scored_tasks |-> scored_tasks,
     probabilities |-> probabilities, drawn |-> drawn, possible |-> possible]

\* variant: every task gets the same weight
probabilities_uniform(scores) ==
    [i \in DOMAIN scores |-> Rat(1, Len(scores))]

\* the selection weights of select_stochastic
probabilities(scores) ==
    LET total == sum(scores)
    IN  IF total = float(0)
        THEN [i \in DOMAIN scores |-> Rat(1, Len(scores))]
        ELSE [i \in DOMAIN scores |-> truediv(scores[i], total)]

\* random.choices(population, weights=weights, k=1)[0]: the elements the
\* draw can return are those of positive weight
random_choices(population, weights) ==
    {population[i] : i \in {j \in DOMAIN population : lt(float(0), weights[j])}}

\* variant: a single task goes through the draw as well
select_scored_always_draws(context, scored_tasks) ==
    LET p == probabilities([i \in DOMAIN scored_tasks |-> scored_tasks[i].score])
    IN  Outcome(None, Some(context), scored_tasks, p, TRUE,
                random_choices(scored_tasks, p))

\* select_stochastic once the tasks are scored
select_scored(context, scored_tasks) ==
    IF Len(scored_tasks) = 1
    THEN Outcome(None, Some(context), scored_tasks, <<>>, FALSE, {scored_tasks[1]})
    ELSE LET p == probabilities([i \in DOMAIN scored_tasks |-> scored_tasks[i].score])
         IN  Outcome(None, Some(context), scored_tasks, p, TRUE,
                     random_choices(scored_tasks, p))

\* variant: the context is built before the list is looked at
select_stochastic_context_first(task_list, user_id, db, config, clock) ==
    LET all == calculate_all_scores(task_list, ScoringContext(user_id, config),
                                    db, clock)
    IN  IF task_list = <<>>
        THEN Outcome(Some("ValueError"), Some(all.context), <<>>, <<>>, FALSE, {})
        ELSE select_scored(all.context, all.scored_tasks)

select_stochastic(task_list, user_id, db, config, clock) ==
    IF task_list = <<>>
    THEN Outcome(Some("ValueError"), None, <<>>, <<>>, FALSE, {})
    ELSE LET all == calculate_all_scores(task_list,
                                         ScoringContext(user_id, config), db, clock)
         IN  select_scored(all.context, all.scored_tasks)

\* where list.sort puts x among the elements sorted so far: before the
\* first one that must follow it, so that equal keys keep their order
RECURSIVE insort(_, _, _)
insort(x, sorted, reverse) ==
    IF sorted = <<>> THEN <<x>>
    ELSE IF (IF reverse THEN lt(Head(sorted).score, x.score)
                        ELSE lt(x.score, Head(sorted).score))
         THEN <<x>> \o sorted
         ELSE <<Head(sorted)>> \o insort(x, Tail(sorted), reverse)

\* list.sort(key=lambda x: x[1], reverse=reverse): a stable sort by score
RECURSIVE sort(_, _)
sort(scored_tasks, reverse) ==
    IF scored_tasks = <<>> THEN <<>>
    ELSE insort(scored_tasks[Len(scored_tasks)],
                sort(SubSeq(scored_tasks, 1, Len(scored_tasks) - 1), reverse),
                reverse)

\* variant: the reverse flag is left out
sort_ascending(scored_tasks) == sort(scored_tasks, FALSE)

\* scored_tasks.sort(key=lambda x: x[1], reverse=True)
sort_descending(scored_tasks) == sort(scored_tasks, TRUE)

\* rank_tasks once the tasks are scored
rank_scored(context, scored_tasks) ==
    Outcome(None, Some(context), sort_descending(scored_tasks), <<>>, FALSE, {})

rank_tasks(task_list, user_id, db, config, clock) ==
    IF task_list = <<>>
    THEN Outcome(None, None, <<>>, <<>>, FALSE, {})
    ELSE LET all == calculate_all_scores(task_list,
                                         ScoringContext(user_id, config), db, clock)
         IN  rank_scored(all.context, all.scored_tasks)

\* the record of a service call: its arguments, what it did, what it returned
Scored(op, task_list, user_id, config, clock, r, returned) ==
    [op |-> op, tasks |-> task_list, user_id |-> user_id, config |-> config,
     clock |-> clock, raised |-> r.raised, context |-> r.context,
     scored_tasks |-> r.scored_tasks, probabilities |-> r.probabilities,
     drawn |-> r.drawn, possible |-> r.possible, returned |-> returned]

\* ------------------------------------------- scoring one task (SpecScore)
\* the tasks, the records and the clock a scoring call may find: one task of
\* user 1 with any impact and urgency; dampening records of either user for
\* it and one for another task; priority records that expire at day 2 or far
\* in the future
InitScore ==
    /\ \E impact \in ImpactEnum, urgency \in UrgencyEnum :
          tasks = << Task(1, 1, "a", None, Some(impact), Some(urgency), None, "none") >>
    /\ next_id = 2
    /\ now = 1
    /\ session = <<>>
    /\ last = Response("none", 0, 0, NoBody, None)
    /\ rejection_dampening \in SUBSET {RejectionDampening(1, 1, 1, "next_break"),
                                       RejectionDampening(2, 2, 1, "next_review"),
                                       RejectionDampening(3, 1, 2, "next_break")}
    /\ daily_priorities \in SUBSET {DailyPriority(1, 1, 1, 2),
                                    DailyPriority(2, 1, 1, MaxTime + 2),
                                    DailyPriority(3, 2, 1, MaxTime + 2)}
    /\ scoring = None
    /\ scored = NoScored
    /\ registry = _registry
    /\ inflight = Idle

\* strategy.calculate_score(task, ScoringContext(user_id, db, config))
CalculateScore ==
    /\ Handled
    /\ \E user_id \in Users, config \in ScoringConfigs, id \in DOMAIN tasks :
          LET r == calculate_score(tasks[id], ScoringContext(user_id, config),
                                   Store, now)
          IN  scored' = [op |-> "calculate_score", user_id |-> user_id,
                         config |-> config, task |-> tasks[id], clock |-> now,
                         score |-> r.score, reason |-> r.reason,
                         context |-> r.context]
    /\ UNCHANGED <<inflight, registry, tasks, next_id, session, last,
                   rejection_dampening, daily_priorities, scoring>>

NextScore == CalculateScore

SpecScore == InitScore /\ [][NextScore]_vars

\* ---------------------------------- the scoring service (SpecSelect)
\* the impact and urgency of the tasks handed to the service
TaskKinds == {<<"A", 3>>, <<"B", 2>>, <<"D", 4>>}

\* a list of up to MaxList tasks of user 1, dampening records of user 1 for
\* some of them, and possibly an unexpired priority record for the first
InitSelect ==
    /\ \E n \in 0..MaxList :
          /\ \E kinds \in [1..n -> TaskKinds] :
                tasks = [i \in 1..n |->
                            Task(i, 1, "a", None, Some(kinds[i][1]),
                                 Some(kinds[i][2]), None, "none")]
          /\ next_id = n + 1
          /\ rejection_dampening \in
                SUBSET {RejectionDampening(i, 1, i, "next_break") : i \in 1..n}
    /\ now = 1
    /\ session = <<>>
    /\ last = Response("none", 0, 0, NoBody, None)
    /\ daily_priorities \in SUBSET {DailyPriority(1, 1, 1, MaxTime + 2)}
    /\ scoring = None
    /\ scored = NoScored
    /\ registry = _registry
    /\ inflight = Idle

\* service.select_stochastic(tasks, user_id, db): one outcome of the draw.
\* A call builds its own context and leaves nothing behind for the next, so
\* one call per behaviour reaches every result.
SelectStochastic ==
    /\ scored = NoScored
    /\ \E user_id \in Users, config \in ScoringConfigs :
          LET r == select_stochastic(tasks, user_id, Store, config, now)
          IN  IF r.raised # None
              THEN scored' = Scored("select_stochastic", tasks, user_id, config,
                                    now, r, None)
              ELSE \E choice \in r.possible :
                      scored' = Scored("select_stochastic", tasks, user_id, config,
                                       now, r,
                                       Some([task |-> choice.task,
                                             reason |-> choice.reason]))
    /\ UNCHANGED <<inflight, registry, tasks, next_id, now, session, last,
                   rejection_dampening, daily_priorities, scoring>>

\* service.rank_tasks(tasks, user_id, db)
RankTasks ==
    /\ scored = NoScored
    /\ \E user_id \in Users, config \in ScoringConfigs :
          LET r == rank_tasks(tasks, user_id, Store, config, now)
          IN  scored' = Scored("rank_tasks", tasks, user_id, config, now, r,
                               Some(r.scored_tasks))
    /\ UNCHANGED <<inflight, registry, tasks, next_id, now, session, last,
                   rejection_dampening, daily_priorities, scoring>>

NextSelect == SelectStochastic \/ RankTasks

SpecSelect == InitSelect /\ [][NextSelect]_vars

\* ------------------------- reject and break requests (suggestions.py)
\* a scoring pass in progress keeps the history of the tables during it: the
\* rows a request commits meanwhile are added to its views
witnessed(rows) ==
    IF scoring # None
    THEN IF Get(scoring).done THEN scoring
         ELSE Some([Get(scoring) EXCEPT
                  !.views = Append(@, [Store EXCEPT !.rejection_dampening = rows])])
    ELSE scoring

\* the primary key of a row added to a table (keys are never read)
new_key(rows) ==
    IF rows = {} THEN 1
    ELSE 1 + CHOOSE k \in {r.id : r \in rows} : \A r \in rows : r.id <= k

\* variant: a record is added whether or not the pair has one
reject_suggestion_adds_always(user, task_id) ==
    IF fetch_task(Session, task_id, user) = None
    THEN /\ last' = Response("reject", 404, task_id, [user_id |-> user], None)
         /\ UNCHANGED rejection_dampening
    ELSE /\ rejection_dampening' =
               rejection_dampening \cup
               {RejectionDampening(new_key(rejection_dampening), user,
                                   task_id, "next_break")}
         /\ last' = Response("reject", 200, task_id, [user_id |-> user], None)

\* POST /suggestions/reject; the response is kept with the user it went to
reject_suggestion(user, task_id) ==
    IF fetch_task(Session, task_id, user) = None
    THEN /\ last' = Response("reject", 404, task_id, [user_id |-> user], None)
         /\ UNCHANGED rejection_dampening
    ELSE LET existing == \E r \in rejection_dampening :
                             r.user_id = user /\ r.task_id = task_id
         IN  /\ rejection_dampening' =
                   IF existing THEN rejection_dampening
                   ELSE rejection_dampening \cup
                        {RejectionDampening(new_key(rejection_dampening), user,
                                            task_id, "next_break")}
             /\ last' = Response("reject", 200, task_id, [user_id |-> user], None)

RejectSuggestion ==
    /\ Handled
    /\ \E user \in Users, task_id \in 1..next_id : reject_suggestion(user, task_id)
    /\ scoring' = witnessed(rejection_dampening')
    /\ UNCHANGED <<inflight, registry, tasks, next_id, session, daily_priorities, scored>>

\* variant: the delete is not filtered by user
take_break_clears_everyone(user) ==
    /\ rejection_dampening' = {}
    /\ last' = Response("break", 200, 0,
                        [user_id |-> user,
                         cleared_count |-> Cardinality(rejection_dampening)], None)

\* POST /suggestions/break
take_break(user) ==
    LET deleted == {r \in rejection_dampening : r.user_id = user}
    IN  /\ rejection_dampening' = rejection_dampening \ deleted
        /\ last' = Response("break", 200, 0,
                            [user_id |-> user,
                             cleared_count |-> Cardinality(deleted)], None)

TakeBreak ==
    /\ Handled
    /\ \E user \in Users : take_break(user)
    /\ scoring' = witnessed(rejection_dampening')
    /\ UNCHANGED <<inflight, registry, tasks, next_id, session, daily_priorities, scored>>

\* ------------------------- a scoring pass, lookup by lookup (SpecPass)
\* A pass scores its tasks one after the other, and each task's lookups are
\* queries of their own, made when that task is scored: a query returns the
\* rows committed at that moment.  The pass keeps, beside the code's state,
\* every state the tables were in from its start to its end (views).
Pass(op, user_id, config, pending, context, scored_tasks, views, clock, done) ==
    [op |-> op, user_id |-> user_id, config |-> config, pending |-> pending,
     context |-> context, scored_tasks |-> scored_tasks, views |-> views,
     clock |-> clock, done |-> done]

\* select_stochastic / rank_tasks up to the construction of the context
BeginPass ==
    /\ Handled
    /\ IF scoring = None THEN TRUE ELSE Get(scoring).done
    /\ tasks # <<>>
    /\ \E op \in {"select_stochastic", "rank_tasks"}, user_id \in Users :
          scoring' = Some(Pass(op, user_id, SCORING_CONFIG, tasks,
                               ScoringContext(user_id, SCORING_CONFIG),
                               <<>>, <<Store>>, now, FALSE))
    /\ UNCHANGED <<inflight, registry, tasks, next_id, session, last,
                   rejection_dampening, daily_priorities, scored>>

\* calculate_all_scores: the next task of the list is scored
ScoreNext ==
    /\ scoring # None
    /\ ~Get(scoring).done
    /\ Get(scoring).pending # <<>>
    /\ LET pass == Get(scoring)
           task == Head(pass.pending)
           r == calculate_score(task, pass.context, Store, pass.clock)
       IN  scoring' = Some([pass EXCEPT
               !.pending = Tail(@),
               !.context = r.context,
               !.scored_tasks = Append(@, [task |-> task, score |-> r.score,
                                           reason |-> r.reason]),
               !.views = Append(@, Store)])
    /\ UNCHANGED <<inflight, registry, tasks, next_id, now, session, last,
                   rejection_dampening, daily_priorities, scored>>

\* the rest of select_stochastic / rank_tasks: the draw or the sort
FinishPass ==
    /\ scoring # None
    /\ ~Get(scoring).done
    /\ Get(scoring).pending = <<>>
    /\ LET pass == Get(scoring)
           r == IF pass.op = "select_stochastic"
                THEN select_scored(pass.context, pass.scored_tasks)
                ELSE rank_scored(pass.context, pass.scored_tasks)
       IN  /\ IF pass.op = "select_stochastic"
              THEN \E choice \in r.possible :
                      scored' = Scored(pass.op, tasks, pass.user_id, pass.config,
                                       pass.clock, r,
                                       Some([task |-> choice.task,
                                             reason |-> choice.reason]))
              ELSE scored' = Scored(pass.op, tasks, pass.user_id, pass.config,
                                    pass.clock, r, Some(r.scored_tasks))
           /\ scoring' = Some([pass EXCEPT !.done = TRUE])
    /\ UNCHANGED <<inflight, registry, tasks, next_id, now, session, last,
                   rejection_dampening, daily_priorities>>

\* two tasks of user 1, no record yet
InitPass ==
    /\ tasks = << Task(1, 1, "a", None, Some("A"), Some(3), None, "none"),
                  Task(2, 1, "b", None, Some("D"), Some(4), None, "none") >>
    /\ next_id = 3
    /\ now = 1
    /\ session = <<>>
    /\ last = Response("none", 0, 0, NoBody, None)
    /\ rejection_dampening = {}
    /\ daily_priorities \in SUBSET {DailyPriority(1, 1, 1, MaxTime + 2)}
    /\ scoring = None
    /\ scored = NoScored
    /\ registry = _registry
    /\ inflight = Idle

NextPass == RejectSuggestion \/ TakeBreak \/ BeginPass \/ ScoreNext \/ FinishPass

SpecPass == InitPass /\ [][NextPass]_vars

\* ===================================================================
\* Properties of the scoring strategy
\* ===================================================================

\* a score was computed by calculate_score
ScoreStep == scored.op = "calculate_score"

\* the modifiers as the specification states them, read off the tables
Nudged == scored.task.impact = "A" /\ scored.task.urgency \in {3, 4}

Dampened ==
    \E r \in rejection_dampening :
        r.user_id = scored.user_id /\ r.task_id = scored.task.id

Prioritised ==
    \E r \in daily_priorities :
        /\ r.user_id = scored.user_id
        /\ r.task_id = scored.task.id
        /\ scored.clock < r.expires_at

\* the running score after each step
Base ==
    add(mul(scored.config.impact_weight,
            float(scored.config.impact_values[scored.task.impact])),
        mul(scored.config.urgency_weight,
            float(scored.config.urgency_values[scored.task.urgency])))

AfterNudge ==
    IF Nudged THEN mul(Base, scored.config.strategic_nudge_boost) ELSE Base

AfterDampening ==
    IF Dampened
    THEN truediv(AfterNudge, add(float(1), scored.config.dampening_factor))
    ELSE AfterNudge

AfterPriority ==
    IF Prioritised
    THEN mul(AfterDampening, scored.config.priority_multiplier)
    ELSE AfterDampening

\* the parts of the reason up to the priority part
Label ==
    "Impact:" \o scored.task.impact \o " Urgency:" \o urgency_str[scored.task.urgency]

PartsBeforePriority ==
    <<Label>> \o (IF Nudged THEN <<"strategic nudge">> ELSE <<>>)
              \o (IF Dampened THEN <<"dampened (rejected)">> ELSE <<>>)

C12_ScoreNonNegative ==
    (ScoreStep /\ scored.config = SCORING_CONFIG) => ~lt(scored.score, float(0))

\* the lowest score of the default configuration: D / rank 4, dampened
C12_Witness ==
    /\ ScoreStep
    /\ scored.config = SCORING_CONFIG
    /\ scored.task.impact = "D" /\ scored.task.urgency = 4
    /\ Dampened /\ ~Prioritised
    /\ scored.score = Rat(7, 3)

C14_ExpiredPriorityGivesNoBoost ==
    ScoreStep =>
        LET mine == {r \in daily_priorities :
                        r.user_id = scored.user_id /\ r.task_id = scored.task.id}
            boosted(r) ==
                /\ r.score = mul(AfterDampening, scored.config.priority_multiplier)
                /\ r.reason = join(" + ", PartsBeforePriority \o <<"daily priority">>)
            plain(r) ==
                /\ r.score = AfterDampening
                /\ r.reason = join(" + ", PartsBeforePriority)
        IN  /\ IF \E r \in mine : scored.clock < r.expires_at
               THEN boosted(scored) ELSE plain(scored)
            /\ \A r \in mine :
                  r.expires_at <= scored.clock =>
                      boosted(calculate_score(
                          scored.task,
                          ScoringContext(scored.user_id, scored.config),
                          [Store EXCEPT !.daily_priorities =
                              (@ \ {r}) \cup
                              {[r EXCEPT !.expires_at = scored.clock + 1]}],
                          scored.clock))

\* a record that expires at the very instant of the call, and no boost
C14_Witness ==
    /\ ScoreStep
    /\ scored.config = SCORING_CONFIG
    /\ \E r \in daily_priorities :
          /\ r.user_id = scored.user_id /\ r.task_id = scored.task.id
          /\ r.expires_at = scored.clock
    /\ ~Prioritised
    /\ scored.score = AfterDampening

\* C15: the score and the reason for user u are those computed from u's own
\* records: whatever records of other users are added or removed, for the
\* same task too, the result is the same
C15_ScoresIgnoreOtherUsers ==
    ScoreStep =>
        LET u == scored.user_id
            own(rows) == {r \in rows : r.user_id = u}
            foreign_dampening ==
                (rejection_dampening \ own(rejection_dampening)) \cup
                {RejectionDampening(8, v, scored.task.id, "next_break") :
                    v \in Users \ {u}}
            foreign_priorities ==
                (daily_priorities \ own(daily_priorities)) \cup
                {DailyPriority(8, v, scored.task.id, scored.clock + 1) :
                    v \in Users \ {u}}
        IN  \A d \in SUBSET foreign_dampening, p \in SUBSET foreign_priorities :
                LET r == calculate_score(
                             scored.task, ScoringContext(u, scored.config),
                             [rejection_dampening |-> own(rejection_dampening) \cup d,
                              daily_priorities |-> own(daily_priorities) \cup p],
                             scored.clock)
                IN  r.score = scored.score /\ r.reason = scored.reason

\* another user has a dampening and an unexpired priority record for the
\* very task, the scoring user has none, and the score has neither modifier
C15_Witness ==
    /\ ScoreStep
    /\ \E r \in rejection_dampening :
          r.user_id # scored.user_id /\ r.task_id = scored.task.id
    /\ \E r \in daily_priorities :
          /\ r.user_id # scored.user_id /\ r.task_id = scored.task.id
          /\ scored.clock < r.expires_at
    /\ ~Dampened /\ ~Prioritised
    /\ scored.score = AfterNudge

\* ===================================================================
\* Properties of the scoring service
\* ===================================================================

SelectStep == scored.op = "select_stochastic"

RankStep == scored.op = "rank_tasks"

\* the score and reason of a task for the call's user, configuration,
\* records and clock
OwnScore(task) ==
    calculate_score(task, ScoringContext(scored.user_id, scored.config),
                    Store, scored.clock)

\* C17: select_stochastic on an empty list fails with the empty-input error
\* and returns nothing; no context is built, no task scored, no record
\* looked up, no draw made
C17_EmptyListFails ==
    (SelectStep /\ scored.tasks = <<>>) =>
        /\ scored.raised = Some("ValueError")
        /\ scored.returned = None
        /\ scored.context = None
        /\ scored.scored_tasks = <<>>
        /\ ~scored.drawn

C17_Witness ==
    /\ SelectStep
    /\ scored.tasks = <<>>
    /\ scored.raised = Some("ValueError")

\* C18: on a non-empty list select_stochastic does not raise and returns a
\* task of the list with the reason computed for that task; a single task
\* is returned whatever the random source does, without a draw
C18_SelectsFromTheList ==
    (SelectStep /\ scored.tasks # <<>>) =>
        /\ scored.raised = None
        /\ scored.returned # None
        /\ \E i \in DOMAIN scored.tasks :
              /\ Get(scored.returned).task = scored.tasks[i]
              /\ Get(scored.returned).reason = OwnScore(scored.tasks[i]).reason
        /\ Len(scored.tasks) = 1 =>
              /\ ~scored.drawn
              /\ Get(scored.returned).task = scored.tasks[1]

C18_Witness ==
    /\ SelectStep
    /\ Len(scored.tasks) = 1
    /\ ~scored.drawn
    /\ scored.returned # None
    /\ Get(scored.returned).task = scored.tasks[1]

\* C19: with two or more tasks the weight of a task is its score over the
\* sum of the scores, or 1/n when that sum is zero; the weights sum to 1;
\* the tasks the draw can return are those of positive weight, so a task
\* of score 0 is not returned when the sum is not zero
C19_SelectionWeights ==
    (SelectStep /\ Len(scored.tasks) >= 2) =>
        LET n == Len(scored.tasks)
            scores == [i \in 1..n |-> OwnScore(scored.tasks[i]).score]
            total == sum(scores)
        IN  /\ DOMAIN scored.probabilities = 1..n
            /\ \A i \in 1..n :
                  scored.probabilities[i] =
                      IF total # float(0) THEN truediv(scores[i], total)
                      ELSE Rat(1, n)
            /\ sum(scored.probabilities) = float(1)
            /\ {c.task : c \in scored.possible} =
                  {scored.tasks[i] : i \in {j \in 1..n :
                                              lt(float(0), scored.probabilities[j])}}
            /\ Get(scored.returned).task \in {c.task : c \in scored.possible}
            /\ total # float(0) =>
                  OwnScore(Get(scored.returned).task).score # float(0)

\* a list with a task of score 0 and a task of positive score
C19_Witness ==
    /\ SelectStep
    /\ Len(scored.tasks) >= 2
    /\ \E i, j \in DOMAIN scored.scored_tasks :
          /\ scored.scored_tasks[i].score = float(0)
          /\ lt(float(0), scored.scored_tasks[j].score)
          /\ Get(scored.returned).task = scored.tasks[j]

\* C20: rank_tasks returns the empty list for the empty list; otherwise one
\* tuple per input task, a permutation of the input, in non-increasing
\* order of score, each tuple with the score and reason of its own task
C20_RankingSortedPermutation ==
    RankStep =>
        LET ranked == Get(scored.returned)
        IN  /\ scored.raised = None
            /\ scored.tasks = <<>> => ranked = <<>>
            /\ Len(ranked) = Len(scored.tasks)
            /\ \A k \in DOMAIN scored.tasks :
                  Cardinality({i \in DOMAIN ranked : ranked[i].task = scored.tasks[k]})
                  = Cardinality({i \in DOMAIN scored.tasks :
                                    scored.tasks[i] = scored.tasks[k]})
            /\ \A i, j \in DOMAIN ranked :
                  i < j => ~lt(ranked[i].score, ranked[j].score)
            /\ \A i \in DOMAIN ranked :
                  /\ ranked[i].score = OwnScore(ranked[i].task).score
                  /\ ranked[i].reason = OwnScore(ranked[i].task).reason

\* a ranking that had to move a task to the front
C20_Witness ==
    /\ RankStep
    /\ Len(scored.tasks) >= 2
    /\ Get(scored.returned)[1].task.id # 1
    /\ lt(Get(scored.returned)[2].score, Get(scored.returned)[1].score)

\* ===================================================================
\* Properties of a scoring pass under concurrent requests
\* ===================================================================

\* C16: a finished pass scored all its tasks against one view of the
\* records: some state the tables were in during the pass gives every
\* task of the list the score and reason the pass gave it
C16_PassScoresOneView ==
    (scoring # None /\ Get(scoring).done) =>
        LET pass == Get(scoring)
        IN  \E v \in DOMAIN pass.views :
                \A i \in DOMAIN pass.scored_tasks :
                    LET r == calculate_score(
                                 pass.scored_tasks[i].task,
                                 ScoringContext(pass.user_id, pass.config),
                                 pass.views[v], pass.clock)
                    IN  /\ pass.scored_tasks[i].score = r.score
                        /\ pass.scored_tasks[i].reason = r.reason

\* ------------------------------- calls on the registry (SpecRegistry)
\* a call on the registry and what it returned; registered lists the
\* strategies handed to register so far, the import's own call first
RegistryCall(op, name, strategy, r, registered) ==
    [op |-> op, name |-> name, strategy |-> strategy, raised |-> r.raised,
     returned |-> r.value, registered |-> registered]

\* the module has been imported; nothing else has happened
InitRegistry ==
    /\ tasks = <<>>
    /\ next_id = 1
    /\ now = 1
    /\ session = <<>>
    /\ last = Response("none", 0, 0, NoBody, None)
    /\ rejection_dampening = {}
    /\ daily_priorities = {}
    /\ scoring = None
    /\ registry = _registry
    /\ inflight = Idle
    /\ scored = RegistryCall("import", "", Some(AdditiveWeightedStrategy),
                             [raised |-> None, value |-> None],
                             << AdditiveWeightedStrategy >>)

\* get_strategy_registry().register(strategy)
Register ==
    /\ Handled
    /\ \E strategy \in Strategies :
          /\ registry' = register(registry, strategy)
          /\ scored' = RegistryCall("register", "", Some(strategy),
                                    [raised |-> None, value |-> None],
                                    Append(scored.registered, strategy))
    /\ UNCHANGED <<inflight, tasks, next_id, session, last,
                   rejection_dampening, daily_priorities, scoring>>

\* get_strategy_registry().get(name)
GetStrategy ==
    /\ Handled
    /\ \E name \in StrategyNames :
          scored' = RegistryCall("get", name, None, get(registry, name),
                                 scored.registered)
    /\ UNCHANGED <<inflight, registry, tasks, next_id, session, last,
                   rejection_dampening, daily_priorities, scoring>>

\* get_strategy_registry().get_default()
GetDefault ==
    /\ Handled
    /\ scored' = RegistryCall("get_default", "", None, get_default(registry),
                              scored.registered)
    /\ UNCHANGED <<inflight, registry, tasks, next_id, session, last,
                   rejection_dampening, daily_priorities, scoring>>

\* get_strategy_registry().list_strategies()
ListStrategies ==
    /\ Handled
    /\ scored' = RegistryCall("list_strategies", "", None,
                              [raised |-> None,
                               value |-> list_strategies(registry)],
                              scored.registered)
    /\ UNCHANGED <<inflight, registry, tasks, next_id, session, last,
                   rejection_dampening, daily_priorities, scoring>>

NextRegistry == Register \/ GetStrategy \/ GetDefault \/ ListStrategies

SpecRegistry == InitRegistry /\ [][NextRegistry]_vars

\* ---------------------------------------------------- properties C21
\* the strategies registered so far under a name, oldest first
RegisteredAs(name) ==
    SelectSeq(scored.registered, LAMBDA s : s.name = name)

\* what get(name) owes after the calls so far
LatestOrUnknown(name) ==
    IF RegisteredAs(name) = <<>>
    THEN [raised |-> Some("Unknown scoring strategy: " \o name), value |-> None]
    ELSE [raised |-> None,
          value |-> Some(RegisteredAs(name)[Len(RegisteredAs(name))])]

\* C21: on the process-wide registry, after any sequence of register calls,
\* get(name) returns the strategy most recently registered under that name
\* and fails with the unknown-strategy error exactly when none was;
\* list_strategies returns one (name, description) entry per registered
\* name, that of the strategy get returns; and get_default never fails and
\* returns the strategy registered as 'additive_weighted'.
C21_RegistryReturnsLatest ==
    /\ \A name \in StrategyNames : get(registry, name) = LatestOrUnknown(name)
    /\ scored.op = "get" =>
          /\ scored.raised = LatestOrUnknown(scored.name).raised
          /\ scored.returned = LatestOrUnknown(scored.name).value
    /\ LET listed == list_strategies(registry)
       IN  /\ {listed[i].name : i \in DOMAIN listed}
                 = {s.name : s \in {scored.registered[k] : k \in DOMAIN scored.registered}}
           /\ \A i, j \in DOMAIN listed : listed[i].name = listed[j].name => i = j
           /\ \A i \in DOMAIN listed :
                 listed[i].description
                    = Get(LatestOrUnknown(listed[i].name).value).description
           /\ scored.op = "list_strategies" => scored.returned = listed
    /\ get_default(registry) = LatestOrUnknown("additive_weighted")
    /\ get_default(registry).raised = None
    /\ scored.op = "get_default" =>
          /\ scored.raised = None
          /\ scored.returned = LatestOrUnknown("additive_weighted").value
          /\ Get(scored.returned).name = "additive_weighted"

\* a name was registered twice and get returned the later strategy; another
\* name was never registered
C21_Witness ==
    /\ scored.op = "get"
    /\ scored.name = "additive_weighted"
    /\ Len(RegisteredAs("additive_weighted")) >= 2
    /\ Get(scored.returned).instance = 2
    /\ RegisteredAs("additive_weighted")[1].instance = 1
    /\ get(registry, "nonexistent_strategy").raised # None
    /\ Len(list_strategies(registry)) = 2

\* ------------- suggest-next and ranked-tasks requests (suggestions.py)
\* the keys of a set of rows, smallest first
RECURSIVE in_key_order(_)
in_key_order(ids) ==
    IF ids = {} THEN <<>>
    ELSE LET first == CHOOSE i \in ids : \A j \in ids : i <= j
         IN  <<first>> \o in_key_order(ids \ {first})

\* variant: the query filters on the owner only
query_tasks_in_any_state(user, states) ==
    LET ids == in_key_order({i \in DOMAIN tasks : tasks[i].user_id = user})
    IN  [k \in DOMAIN ids |-> tasks[ids[k]]]

\* db.query(Task).filter(Task.user_id == user, Task.state.in_(states)).all()
query_tasks(user, states) ==
    LET ids == in_key_order({i \in DOMAIN tasks : /\ tasks[i].user_id = user
                                                  /\ tasks[i].state \in states})
    IN  [k \in DOMAIN ids |-> tasks[ids[k]]]

\* a suggestion request and the response to it: the tasks the query found,
\* what the scoring service did with them, and what went back to the user
Suggestion(op, user_id, include_in_progress, clock, status, detail, found, r, returned) ==
    [op |-> op, user_id |-> user_id, include_in_progress |-> include_in_progress,
     clock |-> clock, status |-> status, detail |-> detail, tasks |-> found,
     scored_tasks |-> r.scored_tasks, returned |-> returned]

\* POST /suggestions/next, with the default strategy and settings.SCORING_CONFIG
get_next_suggestion(user, include_in_progress) ==
    LET states == IF include_in_progress THEN {READY, IN_PROGRESS} ELSE {READY}
        found == query_tasks(user, states)
    IN  IF found = <<>>
        THEN scored' = Suggestion("get_next_suggestion", user, include_in_progress,
                                  now, 404, "No tasks available", found,
                                  Outcome(None, None, <<>>, <<>>, FALSE, {}), None)
        ELSE LET r == select_stochastic(found, user, Store, SCORING_CONFIG, now)
             IN  \E choice \in r.possible :
                    scored' = Suggestion("get_next_suggestion", user,
                                         include_in_progress, now, 200, "",
                                         found, r,
                                         Some([task |-> choice.task,
                                               reason |-> choice.reason]))

GetNextSuggestion ==
    /\ Handled
    /\ \E user \in Users, include_in_progress \in BOOLEAN :
          get_next_suggestion(user, include_in_progress)
    /\ UNCHANGED <<inflight, registry, tasks, next_id, session, last,
                   rejection_dampening, daily_priorities, scoring>>

\* GET /suggestions/planning/ranked-tasks
get_ranked_tasks(user) ==
    LET found == query_tasks(user, {READY})
        r == rank_tasks(found, user, Store, SCORING_CONFIG, now)
    IN  scored' = Suggestion("get_ranked_tasks", user, FALSE, now, 200, "",
                             found, r, Some(r.scored_tasks))

GetRankedTasks ==
    /\ Handled
    /\ \E user \in Users : get_ranked_tasks(user)
    /\ UNCHANGED <<inflight, registry, tasks, next_id, session, last,
                   rejection_dampening, daily_priorities, scoring>>

\* TaskTransition bodies without notes or completion percentage
TaskTransitionInputsPlain ==
    {x \in TaskTransitionInputs : x.notes = None /\ x.completion_percentage = None}

TransitionTaskPlain == TransitionTask(TaskTransitionInputsPlain)

\* two Ready tasks, the first of user 1 and the second of either user; no
\* dampening record yet, possibly a priority record that does not expire
InitSuggest ==
    /\ \E owner \in Users :
          tasks = << Task(1, 1, "a", None, Some("A"), Some(3), None, "none"),
                     Task(2, owner, "b", None, Some("D"), Some(4), None, "none") >>
    /\ next_id = 3
    /\ now = 1
    /\ session = <<>>
    /\ last = Response("none", 0, 0, NoBody, None)
    /\ rejection_dampening = {}
    /\ daily_priorities \in SUBSET {DailyPriority(1, 1, 1, MaxTime + 2)}
    /\ scoring = None
    /\ scored = NoScored
    /\ registry = _registry
    /\ inflight = Idle

\* the suggestion routes: reject, break, suggest-next and ranked-tasks
NextSuggest ==
    RejectSuggestion \/ TakeBreak \/ GetNextSuggestion \/ GetRankedTasks

SpecSuggest == InitSuggest /\ [][NextSuggest]_vars

\* suggestions while transition requests move the tasks through their states
NextEligible == TransitionTaskPlain \/ GetNextSuggestion \/ GetRankedTasks

SpecEligible == InitSuggest /\ [][NextEligible]_vars

\* ===================================================================
\* Properties of the suggestion routes
\* ===================================================================

\* the records of a (user, task) pair among the rows of the table
Records(user, task_id, rows) ==
    {r \in rows : r.user_id = user /\ r.task_id = task_id}

\* the step handles a reject request, a break request
RejectStep == now' = now + 1 /\ scored' = scored /\ last'.op = "reject"

BreakStep == now' = now + 1 /\ scored' = scored /\ last'.op = "break"

\* C22: a reject of a task the user owns answers 200 and leaves exactly one
\* dampening record for that (user, task) and the records of every other
\* pair as they were; if the pair had a record already, the table is
\* unchanged; a reject of a task that does not exist or belongs to another
\* user answers 404 and leaves the table unchanged; so no pair ever has two
\* records
C22_RejectIdempotent ==
    /\ [](\A user \in Users, task_id \in 1..next_id :
            Cardinality(Records(user, task_id, rejection_dampening)) <= 1)
    /\ [][RejectStep =>
            LET user == last'.body.user_id
                task_id == last'.task_id
                before == Records(user, task_id, rejection_dampening)
                after == Records(user, task_id, rejection_dampening')
            IN  IF task_id \in DOMAIN tasks /\ tasks[task_id].user_id = user
                THEN /\ last'.status = 200
                     /\ Cardinality(after) = 1
                     /\ rejection_dampening' \ after = rejection_dampening \ before
                     /\ before # {} => rejection_dampening' = rejection_dampening
                ELSE /\ last'.status = 404
                     /\ rejection_dampening' = rejection_dampening]_vars

\* user 1 rejected both tasks, one of them last, and nothing else happened
\* but rejects: each pair has its one record
C22_Witness ==
    /\ last.op = "reject" /\ last.status = 200 /\ last.body.user_id = 1
    /\ now = MaxTime + 1
    /\ scored = NoScored
    /\ Cardinality(rejection_dampening) = 2
    /\ \A task_id \in {1, 2} :
          Cardinality(Records(1, task_id, rejection_dampening)) = 1

\* C23: a break deletes every dampening record of the requesting user and
\* no record of another user, answers with the number of records deleted
\* as cleared_count, and leaves tasks and daily-priority records unchanged
C23_BreakClearsOwnRecords ==
    [][BreakStep =>
          LET user == last'.body.user_id
              own == {r \in rejection_dampening : r.user_id = user}
          IN  /\ last'.status = 200
              /\ rejection_dampening' = rejection_dampening \ own
              /\ \A r \in rejection_dampening' : r.user_id # user
              /\ last'.body.cleared_count = Cardinality(own)
              /\ tasks' = tasks
              /\ daily_priorities' = daily_priorities]_vars

\* a break that cleared a record and left the other user's record, the
\* tasks and a priority record in place
C23_Witness ==
    /\ last.op = "break"
    /\ last.body.cleared_count = 1
    /\ \E r \in rejection_dampening : r.user_id # last.body.user_id
    /\ \A r \in rejection_dampening : r.user_id # last.body.user_id
    /\ daily_priorities # {}
    /\ Len(tasks) = 2

\* the step answers a suggest-next or ranked-tasks request
SuggestStep ==
    /\ now' = now + 1
    /\ scored' # scored
    /\ scored'.op \in {"get_next_suggestion", "get_ranked_tasks"}

\* the score and reason of a task under settings.SCORING_CONFIG as the
\* specification states them, dampened or not
Stated(task, user, clock, dampened) ==
    LET config == SCORING_CONFIG
        base == add(mul(config.impact_weight, float(config.impact_values[task.impact])),
                    mul(config.urgency_weight, float(config.urgency_values[task.urgency])))
        nudged == task.impact = "A" /\ task.urgency \in {3, 4}
        prioritised == \E r \in daily_priorities :
                          /\ r.user_id = user /\ r.task_id = task.id
                          /\ clock < r.expires_at
        s1 == IF nudged THEN mul(base, config.strategic_nudge_boost) ELSE base
        s2 == IF dampened THEN truediv(s1, add(float(1), config.dampening_factor))
              ELSE s1
        s3 == IF prioritised THEN mul(s2, config.priority_multiplier) ELSE s2
    IN  [score |-> s3,
         reason |-> join(" + ",
             << "Impact:" \o task.impact \o " Urgency:" \o urgency_str[task.urgency] >>
             \o (IF nudged THEN <<"strategic nudge">> ELSE <<>>)
             \o (IF dampened THEN <<"dampened (rejected)">> ELSE <<>>)
             \o (IF prioritised THEN <<"daily priority">> ELSE <<>>))]

\* the table with every record's expiry tag replaced
Retagged(tag) ==
    [Store EXCEPT !.rejection_dampening = {[r EXCEPT !.expires_at = tag] : r \in @}]

JustSuggested ==
    /\ scored.op \in {"get_next_suggestion", "get_ranked_tasks"}
    /\ scored.clock + 1 = now

Eligible ==
    {i \in DOMAIN tasks :
        /\ tasks[i].user_id = scored.user_id
        /\ tasks[i].state \in
              (IF scored.op = "get_next_suggestion" /\ scored.include_in_progress
               THEN {READY, IN_PROGRESS} ELSE {READY})}

\* C25: suggest-next returns a task of the requesting user that is Ready
\* (or In Progress when include_in_progress is set) and answers 404 'No
\* tasks available' exactly when the user has none; ranked-tasks lists
\* exactly the user's Ready tasks; so a Blocked, Parked, Completed or
\* Cancelled task is never suggested or ranked
C25_OnlyEligibleTasksSuggested ==
    JustSuggested =>
        /\ scored.op = "get_next_suggestion" =>
              /\ scored.status = 404 <=> Eligible = {}
              /\ scored.status = 404 =>
                    scored.detail = "No tasks available" /\ scored.returned = None
              /\ scored.status # 404 =>
                    /\ scored.status = 200
                    /\ \E i \in Eligible : Get(scored.returned).task = tasks[i]
                    /\ Get(scored.returned).task.state
                          \notin {BLOCKED, PARKED, COMPLETED, CANCELLED}
        /\ scored.op = "get_ranked_tasks" =>
              LET ranked == Get(scored.returned)
              IN  /\ scored.status = 200
                  /\ {ranked[k].task : k \in DOMAIN ranked} = {tasks[i] : i \in Eligible}
                  /\ Len(ranked) = Cardinality(Eligible)
                  /\ \A k \in DOMAIN ranked : ranked[k].task.state = READY

\* user 1 owns both tasks; the one in progress is offered only on request,
\* the completed one never: asked with include_in_progress, the user gets
\* task 2
C25_Witness ==
    /\ JustSuggested
    /\ scored.op = "get_next_suggestion"
    /\ scored.user_id = 1
    /\ scored.include_in_progress
    /\ \A i \in {1, 2} : tasks[i].user_id = 1
    /\ tasks[1].state = COMPLETED
    /\ tasks[2].state = IN_PROGRESS
    /\ Get(scored.returned).task = tasks[2]

\* ===================================================================
\* Properties of the lifecycle: frame, reachable edges, dead branch
\* ===================================================================

\* C26: a valid transition sets the state to the requested one, changes
\* completed_at only when the task enters Completed, sets notes and the
\* completion percentage to the supplied value exactly when one is
\* supplied, and changes nothing else of the task: title, description,
\* impact, urgency, recurrence, due date, owner, parent and value links
C26_TransitionFrame ==
    [][ (TransitionStep /\ last'.status = 200) =>
          /\ After.state = last'.body.new_state
          /\ After.completed_at # Before.completed_at
                => After.state = COMPLETED /\ Before.state # COMPLETED
          /\ After.notes = IF last'.body.notes # None THEN last'.body.notes
                           ELSE Before.notes
          /\ After.completion_percentage =
                IF last'.body.completion_percentage # None
                THEN Get(last'.body.completion_percentage)
                ELSE Before.completion_percentage
          /\ After.id = Before.id
          /\ After.title = Before.title
          /\ After.description = Before.description
          /\ After.impact = Before.impact
          /\ After.urgency = Before.urgency
          /\ After.recurrence = Before.recurrence
          /\ After.due_date = Before.due_date
          /\ After.user_id = Before.user_id
          /\ After.parent_task_id = Before.parent_task_id
          /\ After.values = Before.values ]_vars

\* a valid transition that supplied a completion percentage and no notes,
\* on a task that had notes and value links: the notes are still there
C26_Witness ==
    /\ last.op = "transition"
    /\ last.status = 200
    /\ last.body.notes = None
    /\ last.body.completion_percentage = Some(50)
    /\ tasks[last.task_id].notes = Some("n")
    /\ tasks[last.task_id].completion_percentage = 50
    /\ tasks[last.task_id].values # {}
    /\ tasks[last.task_id].state = BLOCKED

\* C27: over create, update, transition and delete requests the state of a
\* stored task changes only along an edge of the table: into Completed only
\* from In Progress, and never out of Completed or Cancelled
C27_StateChangesAlongEdges ==
    [][ \A id \in DOMAIN tasks \cap DOMAIN tasks' :
          tasks'[id].state # tasks[id].state =>
              /\ <<tasks[id].state, tasks'[id].state>> \in TableEdges
              /\ tasks'[id].state = COMPLETED => tasks[id].state = IN_PROGRESS
              /\ tasks[id].state \notin {COMPLETED, CANCELLED} ]_vars

\* the branch of transition_task_state that clears completed_at
ClearingBranch(old_state, new_state) ==
    old_state = COMPLETED /\ new_state # COMPLETED

\* C30: no transition request reaches the branch that clears completed_at:
\* a request on a task in state Completed is rejected by the validation, so
\* nothing is assigned and completed_at stays as it is
C30_ClearingBranchUnreachable ==
    [][ (TransitionStep /\ Before.state = COMPLETED) =>
          /\ validate_transition(Before.state, last'.body.new_state)
          /\ last'.status = 400
          /\ ClearingBranch(Before.state, last'.body.new_state) =>
                /\ tasks' = tasks
                /\ After.completed_at = Before.completed_at ]_vars

\* a request to reopen a Completed task was rejected, and its stamp is kept
C30_Witness ==
    /\ last.op = "transition"
    /\ last.status = 400
    /\ last.body.new_state = READY
    /\ tasks[last.task_id].state = COMPLETED
    /\ tasks[last.task_id].completed_at # None

\* -------------- transition requests on separate workers (SpecRace)
\* Each worker handles its request in a session and a transaction of its
\* own.  The engine sets no isolation level (PostgreSQL: READ COMMITTED),
\* the query takes no lock and the row carries no version: the handler
\* works on the row as it loaded it, and its commit writes the columns it
\* changed and inserts the row it added.

\* the request a worker is handling and the task object it loaded
Request(user_id, task_id, transition_data, task) ==
    [user_id |-> user_id, task_id |-> task_id,
     transition_data |-> transition_data, task |-> task]

\* transition_task up to the test of the query's result (404 when empty)
begin_transition(w, user, task_id, transition_data) ==
    LET found == fetch_task(Session, task_id, user)
    IN  IF found = None
        THEN /\ session' = tasks
             /\ last' = Response("transition", 404, task_id, NoBody, None)
             /\ UNCHANGED inflight
        ELSE /\ inflight' = [inflight EXCEPT
                    ![w] = Some(Request(user, task_id, transition_data, Get(found)))]
             /\ UNCHANGED <<session, last>>

BeginTransition ==
    /\ Handled
    /\ \E w \in Workers :
          /\ inflight[w] = None
          /\ \E user \in Users, task_id \in 1..next_id,
                transition_data \in TaskTransitionInputsPlain :
                begin_transition(w, user, task_id, transition_data)
    /\ UNCHANGED <<tasks, next_id, rejection_dampening, daily_priorities,
                   scoring, scored, registry>>

\* UPDATE ... WHERE id = ...: the columns the handler changed on its object
\* are written to the committed row, the others stay as committed
flush_changes(committed, loaded, mutated) ==
    [f \in DOMAIN committed |->
        IF mutated[f] # loaded[f] THEN mutated[f] ELSE committed[f]]

\* the rest of transition_task: transition_task_state on the loaded object,
\* then the commit
finish_transition(w) ==
    LET req == Get(inflight[w])
        db == [rows |-> [tasks EXCEPT ![req.task_id] = req.task],
               next_id |-> next_id]
        r == transition_task_state(db, req.task, req.transition_data.new_state,
                                   req.transition_data.notes,
                                   req.transition_data.completion_percentage, now)
    IN  IF r.raised
        THEN /\ session' = r.db.rows
             /\ last' = Response("transition", 400, req.task_id,
                                 req.transition_data, None)
             /\ UNCHANGED <<tasks, next_id>>
        ELSE /\ r.db.next_id - 2 <= MaxTasks
             /\ commit_transition(
                    [r.db EXCEPT !.rows[req.task_id] =
                        flush_changes(tasks[req.task_id], req.task, @)])
             /\ session' = r.db.rows
             /\ last' = Response("transition", 200, req.task_id,
                                 req.transition_data,
                                 IF r.new_instance = None THEN None
                                 ELSE Some(Get(r.new_instance).id))

FinishTransition ==
    /\ \E w \in Workers :
          /\ inflight[w] # None
          /\ finish_transition(w)
          /\ inflight' = [inflight EXCEPT ![w] = None]
    /\ UNCHANGED <<now, rejection_dampening, daily_priorities, scoring, scored,
                   registry>>

\* one task of user 1 that recurs daily, created and not yet started
InitRace ==
    /\ tasks = << Task(1, 1, "a", None, Some("A"), Some(1), Some(10), "daily") >>
    /\ next_id = 2
    /\ now = 1
    /\ session = <<>>
    /\ last = Response("none", 0, 0, NoBody, None)
    /\ rejection_dampening = {}
    /\ daily_priorities = {}
    /\ scoring = None
    /\ scored = NoScored
    /\ registry = _registry
    /\ inflight = Idle

NextRace == BeginTransition \/ FinishTransition

SpecRace == InitRace /\ [][NextRace]_vars

\* ===================================================================
\* Properties of concurrent transition requests
\* ===================================================================

\* the rows spawned from a task
Successors(id) == {c \in DOMAIN tasks : tasks[c].parent_task_id = Some(id)}

\* C28: whatever the interleaving of transition requests on a task, at most
\* one row has that task as its parent
C28_AtMostOneSuccessor ==
    \A id \in DOMAIN tasks : Cardinality(Successors(id)) <= 1

\* ---------------- one context used for several calls (SpecContext)
\* context = ScoringContext(user_id, db, config), kept by the caller; the
\* scores computed with it so far are kept beside it, oldest first
NewContext ==
    /\ scoring = None
    /\ \E user_id \in Users :
          scoring' = Some(Pass("context", user_id, SCORING_CONFIG, <<>>,
                               ScoringContext(user_id, SCORING_CONFIG),
                               <<>>, <<Store>>, now, FALSE))
    /\ UNCHANGED <<inflight, registry, tasks, next_id, now, session, last,
                   rejection_dampening, daily_priorities, scored>>

\* strategy.calculate_score(task, context) with the context kept
ScoreInContext ==
    /\ Handled
    /\ scoring # None
    /\ \E id \in DOMAIN tasks :
          LET held == Get(scoring)
              r == calculate_score(tasks[id], held.context, Store, now)
          IN  /\ scoring' = Some([held EXCEPT
                     !.context = r.context,
                     !.scored_tasks = Append(@, [task |-> tasks[id],
                                                 score |-> r.score,
                                                 reason |-> r.reason]),
                     !.views = Append(@, Store)])
              /\ scored' = [op |-> "calculate_score", user_id |-> held.user_id,
                            config |-> held.config, task |-> tasks[id],
                            clock |-> now, score |-> r.score, reason |-> r.reason,
                            context |-> r.context]
    /\ UNCHANGED <<inflight, registry, tasks, next_id, session, last,
                   rejection_dampening, daily_priorities>>

\* two tasks of user 1, no dampening record yet, possibly a priority record
\* for the first task that expires at day 3
InitContext ==
    /\ tasks = << Task(1, 1, "a", None, Some("A"), Some(3), None, "none"),
                  Task(2, 1, "b", None, Some("D"), Some(4), None, "none") >>
    /\ next_id = 3
    /\ now = 1
    /\ session = <<>>
    /\ last = Response("none", 0, 0, NoBody, None)
    /\ rejection_dampening = {}
    /\ daily_priorities \in SUBSET {DailyPriority(1, 1, 1, 3)}
    /\ scoring = None
    /\ scored = NoScored
    /\ registry = _registry
    /\ inflight = Idle

NextContext ==
    \/ NewContext
    \/ ScoreInContext
    \/ RejectSuggestion
    \/ TakeBreak
    \/ GetNextSuggestion
    \/ GetRankedTasks

SpecContext == InitContext /\ [][NextContext]_vars

\* ===================================================================
\* Properties of the context's caches
\* ===================================================================

\* the tables a later call in the same context might find: no record at
\* all, or a dampening record of every user for every task, with or without
\* the priority record
AnyStore ==
    [rejection_dampening :
        {{}, {RejectionDampening(1, u, t, "next_break") : u \in Users, t \in {1, 2}}},
     daily_priorities : SUBSET {DailyPriority(1, 1, 1, 3)}]

\* C29: in one context a task scored again gets the score and reason it got
\* the first time, whatever was added to or deleted from the tables since
\* and whatever the time: once a task id is in the caches no table decides
\* its score (neither accessor queries again); a select_stochastic or
\* rank_tasks call scores with a context of its own and gives every task
\* the score and reason that the records present at that call decide
C29_ContextCachesLookups ==
    /\ scoring # None =>
          LET held == Get(scoring)
          IN  /\ \A i, j \in DOMAIN held.scored_tasks :
                    held.scored_tasks[i].task.id = held.scored_tasks[j].task.id =>
                        /\ held.scored_tasks[i].score = held.scored_tasks[j].score
                        /\ held.scored_tasks[i].reason = held.scored_tasks[j].reason
              /\ \A i \in DOMAIN held.scored_tasks :
                    /\ held.scored_tasks[i].task.id \in DOMAIN held.context.dampening_cache
                    /\ held.scored_tasks[i].task.id \in DOMAIN held.context.priority_cache
                    /\ \A db \in AnyStore, clock \in {1, MaxTime + 1} :
                          LET r == calculate_score(held.scored_tasks[i].task,
                                                   held.context, db, clock)
                          IN  /\ r.score = held.scored_tasks[i].score
                              /\ r.reason = held.scored_tasks[i].reason
                              /\ r.context = held.context
    /\ JustSuggested =>
          \A i \in DOMAIN scored.scored_tasks :
              LET r == calculate_score(scored.scored_tasks[i].task,
                                       ScoringContext(scored.user_id, SCORING_CONFIG),
                                       Store, scored.clock)
              IN  /\ scored.scored_tasks[i].score = r.score
                  /\ scored.scored_tasks[i].reason = r.reason

\* task 1 was scored in a context, then rejected, then scored again in that
\* context with the same undampened result, while the ranking asked for
\* afterwards gives it the dampened score
C29_Witness ==
    /\ scoring # None
    /\ Len(Get(scoring).scored_tasks) = 2
    /\ \A i \in {1, 2} :
          /\ Get(scoring).scored_tasks[i].task.id = 1
          /\ Get(scoring).scored_tasks[i].score = Rat(33, 2)
    /\ Get(scoring).user_id = 1
    /\ Records(1, 1, rejection_dampening) # {}
    /\ JustSuggested
    /\ scored.op = "get_ranked_tasks"
    /\ scored.user_id = 1
    /\ \E i \in DOMAIN scored.scored_tasks :
          /\ scored.scored_tasks[i].task.id = 1
          /\ scored.scored_tasks[i].score = float(11)

====
